---- MODULE Spec2Model ----
(***************************************************************************)
(* Conway's Game of Life on a bounded, hard-edged grid (src/src/main.rs).   *)
(*                                                                         *)
(* The program seeds a set of live coordinates by rejection sampling        *)
(* (seed), fills the grid from it (setup), and then runs one generation     *)
(* step per fixed tick (dead_or_alive) while two render systems read the    *)
(* grid and the Dashboard (update_cell_color, update_dashboard).            *)
(*                                                                         *)
(* The grid half-length HALF_LEN is 40 in the source; the model keeps the   *)
(* source's formulas in terms of HALF_LEN and evaluates them on a 4 x 4     *)
(* grid (HALF_LEN = 2).                                                     *)
(***************************************************************************)
EXTENDS Integers, Sequences, FiniteSets, TLC

VARIABLES
    pc,                \* "seed": inside seed()'s loop; "run": after setup;
                       \* "call" / "ret": around one call of alive_neighbor_count
    init_alive_count,  \* the configured target of seed() (INIT_ALIVE_COUNT)
    result,            \* seed()'s HashSet<Coord>
    cells,             \* the Cell components, in spawn (query) order
    db,                \* the Dashboard resource
    sprites,           \* the Sprite colour of each cell entity
    text,              \* the two TextSection values of the dashboard text
    start,             \* history: the grid as it was at generation 0
    live_ticks,        \* history: executions of dead_or_alive that saw a live cell
    me,                \* argument of a direct call of alive_neighbor_count
    alives,            \* argument of a direct call of alive_neighbor_count
    live_count,        \* value returned by that call
    snapshot,          \* dead_or_alive's local alive_coords while its loop runs
    visited            \* the cells its loop over query.iter_mut() has visited

vars == <<pc, init_alive_count, result, cells, db, sprites, text, start,
          live_ticks, me, alives, live_count, snapshot, visited>>

-----------------------------------------------------------------------------
(* Constants of the program *)

HALF_LEN == 2

INIT_ALIVE_COUNT == HALF_LEN * HALF_LEN

-----------------------------------------------------------------------------
(* Bounds of the model *)

\* random::<i32>() is drawn from -MaxRand .. MaxRand
MaxRand == 3

\* dead_or_alive is not run any more once Dashboard.round has reached MaxRound
MaxRound == 5

\* a freely chosen generation 0 holds at most MaxInitAlive Alive cells
MaxInitAlive == 5

\* direct calls of alive_neighbor_count take `me` up to Pad cells outside the grid
Pad == 1

\* with the cells visited in any order, dead_or_alive is executed MaxOrderRound times
MaxOrderRound == 1

-----------------------------------------------------------------------------
(* The grid *)

\* -HALF_LEN..HALF_LEN, the half-open range of both loops of setup
GridRange == (-HALF_LEN) .. (HALF_LEN - 1)

GridCoords == GridRange \X GridRange

NumCells == (2 * HALF_LEN) * (2 * HALF_LEN)

\* the i-th coordinate as if both ranges of setup included HALF_LEN
CoordAt_inclusive(i) ==
    << -HALF_LEN + ((i - 1) \div (2 * HALF_LEN + 1)),
       -HALF_LEN + ((i - 1) % (2 * HALF_LEN + 1)) >>

\* the coordinate of the i-th cell pushed by setup: x is the outer loop, y the inner
CoordAt(i) ==
    << -HALF_LEN + ((i - 1) \div (2 * HALF_LEN)),
       -HALF_LEN + ((i - 1) % (2 * HALF_LEN)) >>

\* Rust's % on i32: the remainder of truncated division, with the dividend's sign
\* (written without negating a, which i32::MIN does not allow)
Rem(a, b) ==
    IF a >= 0 THEN a % b
    ELSE IF a % b = 0 THEN 0 ELSE (a % b) - b

\* i32::MIN and i32::MAX
I32Max == (2 ^ 30 - 1) + 2 ^ 30

I32Min == -I32Max - 1

\* the values random::<i32>() is drawn from: those around 0 and the two extremes
RandVals == ((-MaxRand) .. MaxRand) \cup {I32Min, I32Max}

\* the coordinates seed() can produce
SeedDomain == { <<Rem(rx, HALF_LEN), Rem(ry, HALF_LEN)>> : rx \in RandVals, ry \in RandVals }

-----------------------------------------------------------------------------
(* seed *)

\* the loop condition with <= for <
SeedContinue_le(res, target) == Cardinality(res) <= target

\* the loop condition of seed()
SeedContinue(res, target) == Cardinality(res) < target

\* the remainders taken by HALF_LEN + 1
SeedInsert_wide(res, rx, ry) ==
    res \cup { <<Rem(rx, HALF_LEN + 1), Rem(ry, HALF_LEN + 1)>> }

\* one iteration of the loop, with the two random draws rx and ry
SeedInsert(res, rx, ry) == res \cup { <<Rem(rx, HALF_LEN), Rem(ry, HALF_LEN)>> }

SeedDraw ==
    /\ pc = "seed"
    /\ SeedContinue(result, init_alive_count)
    /\ \E rx \in RandVals, ry \in RandVals : result' = SeedInsert(result, rx, ry)
    /\ UNCHANGED <<snapshot, visited, pc, init_alive_count, cells, db, sprites, text, start,
                   live_ticks, me, alives, live_count>>

-----------------------------------------------------------------------------
(* setup *)

SetupCells(rand_alives) ==
    [ i \in 1 .. NumCells |->
        [ state    |-> IF CoordAt(i) \in rand_alives THEN "Alive" ELSE "Dead",
          index_xy |-> CoordAt(i) ] ]

\* setup also storing the number of seeded cells in Dashboard.survival
Setup_with_census ==
    /\ pc = "seed"
    /\ ~SeedContinue(result, init_alive_count)
    /\ cells' = SetupCells(result)
    /\ start' = cells'
    /\ sprites' = [ i \in 1 .. NumCells |-> "DEFAULT" ]
    /\ text' = << <<>>, <<>> >>
    /\ pc' = "run"
    /\ db' = [db EXCEPT !.survival = Cardinality(result \cap GridCoords)]
    /\ UNCHANGED <<snapshot, visited, init_alive_count, result, live_ticks,
                   me, alives, live_count>>

\* seed() has returned; the grid, the sprites and the text entity are spawned
Setup ==
    /\ pc = "seed"
    /\ ~SeedContinue(result, init_alive_count)
    /\ cells' = SetupCells(result)
    /\ start' = cells'
    /\ sprites' = [ i \in 1 .. NumCells |-> "DEFAULT" ]
    /\ text' = << <<>>, <<>> >>
    /\ pc' = "run"
    /\ UNCHANGED <<snapshot, visited, init_alive_count, result, db, live_ticks, me, alives, live_count>>

-----------------------------------------------------------------------------
(* alive_neighbor_count *)

\* the array of the surrounding 8, in the source's order
Surrounding(c) ==
    << <<c[1] - 1, c[2] - 1>>, <<c[1] - 1, c[2]>>, <<c[1] - 1, c[2] + 1>>,
       <<c[1], c[2] - 1>>, <<c[1], c[2] + 1>>,
       <<c[1] + 1, c[2] - 1>>, <<c[1] + 1, c[2]>>, <<c[1] + 1, c[2] + 1>> >>

\* the bounds test with > for >= on the lower side
Valid_strict(n) ==
    n[1] > -HALF_LEN /\ n[2] > -HALF_LEN /\ n[1] <= HALF_LEN /\ n[2] <= HALF_LEN

\* the bounds test of the filter closure
Valid(n) ==
    n[1] >= -HALF_LEN /\ n[2] >= -HALF_LEN /\ n[1] <= HALF_LEN /\ n[2] <= HALF_LEN

\* alives.iter().any(|(ax, ay)| x == ax && y == ay)
AnyAlive(n, alive_list) ==
    \E j \in 1 .. Len(alive_list) : n[1] = alive_list[j][1] /\ n[2] = alive_list[j][2]

\* a count per matching entry of the list instead of per surrounding coordinate
alive_neighbor_count_per_entry(c, alive_list) ==
    Cardinality({ <<k, j>> \in (1 .. 8) \X (1 .. Len(alive_list)) :
                    /\ Valid(Surrounding(c)[k])
                    /\ Surrounding(c)[k] = alive_list[j] })

alive_neighbor_count(c, alive_list) ==
    LET Keep(n) == Valid(n) /\ AnyAlive(n, alive_list)
    IN  Len(SelectSeq(Surrounding(c), Keep))

-----------------------------------------------------------------------------
(* dead_or_alive *)

IsAlive(cell) == cell.state = "Alive"

\* query.iter().filter(state == Alive).map(index_xy).collect()
AliveCoords(cs) ==
    LET sel == SelectSeq(cs, IsAlive)
    IN  [ j \in 1 .. Len(sel) |-> sel[j].index_xy ]

\* overpopulation from three neighbours on instead of from four
RuleNext_overpop3(state, n) ==
    IF state = "Alive"
    THEN IF n < 2 \/ n >= 3 THEN "Dead" ELSE "Alive"
    ELSE IF n = 3 THEN "Alive" ELSE "Dead"

\* the match on cell.state
RuleNext(state, n) ==
    IF state = "Alive"
    THEN IF n < 2 \/ n > 3 THEN "Dead" ELSE "Alive"
    ELSE IF n = 3 THEN "Alive" ELSE "Dead"

\* the loop with the live coordinates read from the grid as it is being mutated
RECURSIVE IterMut_in_place(_, _, _, _)
IterMut_in_place(cs, i, alive_coords, survival) ==
    IF i > Len(cs)
    THEN [ cells |-> cs, survival |-> survival ]
    ELSE LET n  == alive_neighbor_count(cs[i].index_xy, AliveCoords(cs))
             st == RuleNext(cs[i].state, n)
         IN  IterMut_in_place([cs EXCEPT ![i].state = st], i + 1, alive_coords,
                              IF st = "Alive" THEN survival + 1 ELSE survival)

\* the for loop over query.iter_mut(), from cell i on: each cell is mutated in
\* place and counted into survival when it is Alive afterwards
RECURSIVE IterMut(_, _, _, _)
IterMut(cs, i, alive_coords, survival) ==
    IF i > Len(cs)
    THEN [ cells |-> cs, survival |-> survival ]
    ELSE LET n  == alive_neighbor_count(cs[i].index_xy, alive_coords)
             st == RuleNext(cs[i].state, n)
         IN  IterMut([cs EXCEPT ![i].state = st], i + 1, alive_coords,
                     IF st = "Alive" THEN survival + 1 ELSE survival)

\* without the reset of survival before the loop
dead_or_alive_no_reset(d, cs) ==
    LET alive_coords == AliveCoords(cs)
    IN  IF Len(alive_coords) = 0
        THEN [ db |-> d, cells |-> cs ]
        ELSE LET r == IterMut(cs, 1, alive_coords, d.survival)
             IN  [ db    |-> [ round |-> d.round + 1, survival |-> r.survival ],
                   cells |-> r.cells ]

\* without the early return on an empty live list
dead_or_alive_no_return(d, cs) ==
    LET r == IterMut(cs, 1, AliveCoords(cs), 0)
    IN  [ db    |-> [ round |-> d.round + 1, survival |-> r.survival ],
          cells |-> r.cells ]

\* round advanced only by a step that changed the grid
dead_or_alive_round_on_change(d, cs) ==
    LET alive_coords == AliveCoords(cs)
    IN  IF Len(alive_coords) = 0
        THEN [ db |-> d, cells |-> cs ]
        ELSE LET r == IterMut(cs, 1, alive_coords, 0)
             IN  [ db    |-> [ round    |-> IF r.cells = cs THEN d.round ELSE d.round + 1,
                               survival |-> r.survival ],
                   cells |-> r.cells ]

\* returning without the Dashboard update when the step left no cell Alive
dead_or_alive_skip_extinct(d, cs) ==
    LET alive_coords == AliveCoords(cs)
    IN  IF Len(alive_coords) = 0
        THEN [ db |-> d, cells |-> cs ]
        ELSE LET r == IterMut(cs, 1, alive_coords, 0)
             IN  [ db    |-> IF r.survival = 0 THEN d
                             ELSE [ round |-> d.round + 1, survival |-> r.survival ],
                   cells |-> r.cells ]

\* the whole system: Dashboard and grid after one execution
dead_or_alive(d, cs) ==
    LET alive_coords == AliveCoords(cs)
    IN  IF Len(alive_coords) = 0
        THEN [ db |-> d, cells |-> cs ]
        ELSE LET r == IterMut(cs, 1, alive_coords, 0)
             IN  [ db    |-> [ round |-> d.round + 1, survival |-> r.survival ],
                   cells |-> r.cells ]

DeadOrAlive ==
    /\ pc = "run"
    /\ db.round < MaxRound
    /\ LET out == dead_or_alive(db, cells)
       IN  /\ db' = out.db
           /\ cells' = out.cells
    /\ live_ticks' = IF Len(AliveCoords(cells)) = 0 THEN live_ticks ELSE live_ticks + 1
    /\ UNCHANGED <<snapshot, visited, pc, init_alive_count, result, sprites, text, start,
                   me, alives, live_count>>

-----------------------------------------------------------------------------
(* the render systems *)

\* the render systems may run at every place of the program after setup
RenderMayRun_unordered(p) == p \in {"run", "step"}

\* Update runs only between executions of FixedUpdate: the render systems do
\* not run while dead_or_alive is executing
RenderMayRun(p) == p = "run"

CellColor(cell) == IF cell.state = "Dead" THEN "GRAY" ELSE "WHITE"

UpdateCellColor ==
    /\ RenderMayRun(pc)
    /\ sprites' = [ i \in 1 .. Len(cells) |-> CellColor(cells[i]) ]
    /\ UNCHANGED <<snapshot, visited, pc, init_alive_count, result, cells, db, text, start,
                   live_ticks, me, alives, live_count>>

\* format!("Round: {} \n", n) and format!("Survival: {} ", n)
FormatRound(n) == <<"Round: ", n, " \n">>

FormatSurvival(n) == <<"Survival: ", n, " ">>

UpdateDashboard ==
    /\ RenderMayRun(pc)
    /\ text' = << FormatRound(db.round), FormatSurvival(db.survival) >>
    /\ UNCHANGED <<snapshot, visited, pc, init_alive_count, result, cells, db, sprites, start,
                   live_ticks, me, alives, live_count>>

-----------------------------------------------------------------------------
(* The program: main *)

NoCall == me = <<0, 0>> /\ alives = <<>> /\ live_count = 0

\* dead_or_alive is not executing
NoStep == snapshot = <<>> /\ visited = {}

Init ==
    /\ pc = "seed"
    /\ init_alive_count = INIT_ALIVE_COUNT
    /\ result = {}
    /\ cells = <<>>
    /\ db = [ round |-> 0, survival |-> 0 ]
    /\ sprites = <<>>
    /\ text = <<>>
    /\ start = <<>>
    /\ live_ticks = 0
    /\ NoStep
    /\ NoCall

Next ==
    \/ SeedDraw
    \/ Setup
    \/ DeadOrAlive
    \/ UpdateCellColor
    \/ UpdateDashboard

Spec == Init /\ [][Next]_vars

-----------------------------------------------------------------------------
(* The generation stepper on a freely chosen generation 0: setup with any    *)
(* set of at most MaxInitAlive live coordinates, then ticks.                 *)

InitGrid ==
    /\ pc = "run"
    /\ init_alive_count = INIT_ALIVE_COUNT
    /\ result \in { S \in SUBSET GridCoords : Cardinality(S) <= MaxInitAlive }
    /\ cells = SetupCells(result)
    /\ start = cells
    /\ db = [ round |-> 0, survival |-> 0 ]
    /\ sprites = [ i \in 1 .. NumCells |-> "DEFAULT" ]
    /\ text = << <<>>, <<>> >>
    /\ live_ticks = 0
    /\ NoStep
    /\ NoCall

NextGrid == DeadOrAlive

SpecGrid == InitGrid /\ [][NextGrid]_vars

-----------------------------------------------------------------------------
(* alive_neighbor_count called directly, as test_alive_neighbor does.        *)
(* The live list names any subset of the 3 x 3 block around `me` (in or out  *)
(* of the grid, `me` included), optionally followed by one coordinate two    *)
(* cells away and by a repetition of its first entry.                        *)

ExtRange == (-HALF_LEN - Pad) .. (HALF_LEN + Pad)

ExtCoords == ExtRange \X ExtRange

BlockSeq(c) ==
    << <<c[1] - 1, c[2] - 1>>, <<c[1] - 1, c[2]>>, <<c[1] - 1, c[2] + 1>>,
       <<c[1], c[2] - 1>>, c, <<c[1], c[2] + 1>>,
       <<c[1] + 1, c[2] - 1>>, <<c[1] + 1, c[2]>>, <<c[1] + 1, c[2] + 1>> >>

FarChoices(c) == { <<>>, << <<c[1] + 2, c[2]>> >>, << <<c[1] - 1, c[2] - 2>> >> }

AliveLists(c) ==
    { LET In(n)  == n \in B
          listed == SelectSeq(BlockSeq(c), In) \o far
      IN  IF dup /\ listed # <<>> THEN Append(listed, listed[1]) ELSE listed
      : B \in SUBSET { BlockSeq(c)[k] : k \in 1 .. 9 },
        far \in FarChoices(c),
        dup \in BOOLEAN }

InitCount ==
    /\ pc = "call"
    /\ me \in ExtCoords
    /\ alives \in AliveLists(me)
    /\ live_count = 0
    /\ init_alive_count = INIT_ALIVE_COUNT
    /\ result = {}
    /\ cells = <<>>
    /\ db = [ round |-> 0, survival |-> 0 ]
    /\ sprites = <<>>
    /\ text = <<>>
    /\ start = <<>>
    /\ live_ticks = 0
    /\ NoStep

CallCount ==
    /\ pc = "call"
    /\ live_count' = alive_neighbor_count(me, alives)
    /\ pc' = "ret"
    /\ UNCHANGED <<snapshot, visited, init_alive_count, result, cells, db, sprites, text, start,
                   live_ticks, me, alives>>

NextCount == CallCount

SpecCount == InitCount /\ [][NextCount]_vars

-----------------------------------------------------------------------------
(* Start-up under any configured target count, up to one more than the       *)
(* number of coordinates seed() can produce.                                 *)

InitConfig ==
    /\ pc = "seed"
    /\ init_alive_count \in 0 .. (Cardinality(SeedDomain) + 1)
    /\ result = {}
    /\ cells = <<>>
    /\ db = [ round |-> 0, survival |-> 0 ]
    /\ sprites = <<>>
    /\ text = <<>>
    /\ start = <<>>
    /\ live_ticks = 0
    /\ NoStep
    /\ NoCall

NextConfig ==
    \/ SeedDraw
    \/ Setup

SpecConfig == InitConfig /\ [][NextConfig]_vars

-----------------------------------------------------------------------------
(* Definitions the properties are stated with *)

\* the coordinates of the Alive cells of a grid
LiveSet(cs) == { cs[i].index_xy : i \in { k \in 1 .. Len(cs) : cs[k].state = "Alive" } }

\* the 8 axis- and diagonal-adjacent coordinates of c
Adjacent8(c) ==
    { d \in (c[1] - 1 .. c[1] + 1) \X (c[2] - 1 .. c[2] + 1) : d # c }

\* the classic Life rule for coordinate c on the live set S of a grid
ClassicAlive(c, S) ==
    LET k == Cardinality(Adjacent8(c) \cap GridCoords \cap S)
    IN  IF c \in S THEN k \in {2, 3} ELSE k = 3

SeqToSet(q) == { q[j] : j \in 1 .. Len(q) }

IsCorner(c) ==
    c[1] \in {-HALF_LEN, HALF_LEN - 1} /\ c[2] \in {-HALF_LEN, HALF_LEN - 1}

IsEdge(c) ==
    /\ c \in GridCoords
    /\ ~IsCorner(c)
    /\ (c[1] \in {-HALF_LEN, HALF_LEN - 1} \/ c[2] \in {-HALF_LEN, HALF_LEN - 1})

-----------------------------------------------------------------------------
(* C1 *)

\* C1: every execution of dead_or_alive on a grid with at least one Alive cell
\* leaves each cell Alive exactly when the classic Life rule, evaluated on the
\* live set as it was before the execution, says so: an Alive cell with 2 or 3
\* live neighbours, a Dead cell with exactly 3.
C1_SynchronousLifeRule ==
    [][ (pc = "run" /\ LiveSet(cells) # {})
        => /\ Len(cells') = Len(cells)
           /\ \A i \in 1 .. Len(cells) :
                /\ cells'[i].index_xy = cells[i].index_xy
                /\ (cells'[i].state = "Alive")
                     <=> ClassicAlive(cells[i].index_xy, LiveSet(cells)) ]_vars

\* one step has been taken in which a cell died of overpopulation, a cell died
\* of underpopulation, a cell survived and a cell was born
C1_Witness ==
    /\ pc = "run"
    /\ db.round = 1
    /\ \E i, j, k, l \in 1 .. Len(cells) :
         /\ start[i].state = "Alive" /\ cells[i].state = "Dead"
         /\ Cardinality(Adjacent8(start[i].index_xy) \cap LiveSet(start)) > 3
         /\ start[j].state = "Alive" /\ cells[j].state = "Dead"
         /\ Cardinality(Adjacent8(start[j].index_xy) \cap LiveSet(start)) < 2
         /\ start[k].state = "Alive" /\ cells[k].state = "Alive"
         /\ start[l].state = "Dead" /\ cells[l].state = "Alive"

-----------------------------------------------------------------------------
(* C2 *)

\* C2: for every coordinate `me` and every live list naming grid coordinates,
\* alive_neighbor_count returns the number of the 8 adjacent coordinates of
\* `me` that lie in the grid and are named by the list: `me` itself is not
\* counted, a coordinate named twice is counted once, the result is in 0..8,
\* and the two cases of test_alive_neighbor give 3 and 2.
C2_NeighborCount ==
    (pc = "ret" /\ SeqToSet(alives) \subseteq GridCoords)
    => /\ live_count = Cardinality(Adjacent8(me) \cap GridCoords \cap SeqToSet(alives))
       /\ live_count \in 0 .. 8
       /\ alives = << <<-1, -1>>, <<-1, 0>>, <<0, -1>> >>
            => /\ me = <<0, 0>> => live_count = 3
               /\ me = <<-2, -1>> => live_count = 2

\* the second call of test_alive_neighbor has returned
C2_Witness ==
    /\ pc = "ret"
    /\ me = <<-2, -1>>
    /\ alives = << <<-1, -1>>, <<-1, 0>>, <<0, -1>> >>
    /\ live_count = 2

-----------------------------------------------------------------------------
(* C5 *)

\* C5: for every live list of integer coordinates, alive_neighbor_count is at
\* most 3 for a corner cell and at most 5 for a non-corner edge cell, and it
\* never counts a coordinate outside [-HALF_LEN, HALF_LEN) on either axis.
C5_EdgeBounds ==
    (pc = "ret" /\ me \in GridCoords)
    => /\ IsCorner(me) => live_count <= 3
       /\ IsEdge(me) => live_count <= 5
       /\ live_count <= Cardinality(Adjacent8(me) \cap GridCoords \cap SeqToSet(alives))

-----------------------------------------------------------------------------
(* C6 *)

\* the 5-cell glider that travels towards (+1, +1), and its mirror image in
\* the diagonal, with the 4 x 4 box its four generations stay in at the origin
CanonicalGlider == { <<1, 0>>, <<2, 1>>, <<0, 2>>, <<1, 2>>, <<2, 2>> }

Gliders ==
    { CanonicalGlider,
      { <<0, 1>>, <<1, 2>>, <<2, 0>>, <<2, 1>>, <<2, 2>> } }

Translate(S, o) == { <<c[1] + o[1], c[2] + o[2]>> : c \in S }

\* the box of the glider placed at o lies in the grid
FarFromEdges(o) == Translate((0 .. 3) \X (0 .. 3), o) \subseteq GridCoords

\* C6: when generation 0 is exactly a glider whose 4 x 4 box lies in the grid,
\* the Alive cells after 4 executions of dead_or_alive are exactly that glider
\* translated by (1, 1).
C6_GliderAfterFour ==
    \A g \in Gliders, o \in GridCoords :
        (pc = "run" /\ FarFromEdges(o) /\ LiveSet(start) = Translate(g, o) /\ db.round = 4)
        => LiveSet(cells) = Translate(g, <<o[1] + 1, o[2] + 1>>)

\* a glider has been stepped four times
C6_Witness ==
    /\ pc = "run"
    /\ db.round = 4
    /\ live_ticks = 4
    /\ \E g \in Gliders, o \in GridCoords :
         FarFromEdges(o) /\ LiveSet(start) = Translate(g, o)

-----------------------------------------------------------------------------
(* C3 *)

\* C3: once an execution of dead_or_alive has completed (it saw a live cell),
\* Dashboard.survival equals the number of Alive cells of the grid, in that
\* state and in every later one.
C3_SurvivalIsCensus ==
    (pc = "run" /\ live_ticks >= 1) => db.survival = Cardinality(LiveSet(cells))

\* two steps have completed, the second from a grid the first had changed,
\* and cells are still Alive
C3_Witness ==
    /\ pc = "run"
    /\ live_ticks = 2
    /\ cells # start
    /\ db.survival = Cardinality(LiveSet(cells))
    /\ db.survival > 0
    /\ db.survival # Cardinality(LiveSet(start))

-----------------------------------------------------------------------------
(* C4 *)

\* C4: from a state of the running program with no Alive cell, every step
\* leaves the grid, Dashboard.round and Dashboard.survival as they are: the
\* tick is a no-op and no cell becomes Alive again.
C4_ExtinctionTerminal ==
    [][ (pc = "run" /\ LiveSet(cells) = {})
        => (cells' = cells /\ db' = db /\ live_ticks' = live_ticks) ]_vars

\* the population has died out after some completed steps, with ticks still to come
C4_Witness ==
    /\ pc = "run"
    /\ LiveSet(cells) = {}
    /\ LiveSet(start) # {}
    /\ db.round >= 1
    /\ db.round < MaxRound
    /\ db.survival = 0

-----------------------------------------------------------------------------
(* C7 *)

\* C7: when seed() has returned, its result holds exactly the target number of
\* coordinates; and while the loop runs, drawing a coordinate that is already
\* in the result leaves the result as it is, so the loop condition still holds.
C7_SeedCardinality ==
    /\ pc = "run" => Cardinality(result) = init_alive_count
    /\ pc = "seed"
         => \A rx \in RandVals, ry \in RandVals :
               <<Rem(rx, HALF_LEN), Rem(ry, HALF_LEN)>> \in result
               => /\ SeedInsert(result, rx, ry) = result
                  /\ SeedContinue(result, init_alive_count)
                       => SeedContinue(SeedInsert(result, rx, ry), init_alive_count)

\* seed() has returned its set and setup has made exactly those cells Alive
C7_Witness ==
    /\ pc = "run"
    /\ Cardinality(result) = INIT_ALIVE_COUNT
    /\ LiveSet(start) = result

-----------------------------------------------------------------------------
(* C8 *)

\* C8, as claimed: every coordinate of seed()'s result has both components in
\* [0, HALF_LEN).
C8_SingleQuadrant ==
    \A c \in result : 0 <= c[1] /\ c[1] < HALF_LEN /\ 0 <= c[2] /\ c[2] < HALF_LEN

\* C8, amended: every coordinate of seed()'s result has both components in the
\* open range (-HALF_LEN, HALF_LEN); negative components occur.
C8_OpenRange ==
    \A c \in result : -HALF_LEN < c[1] /\ c[1] < HALF_LEN /\ -HALF_LEN < c[2] /\ c[2] < HALF_LEN

\* seed() has returned a set that reaches both ends of the range, on both axes
C8_Witness ==
    /\ pc = "run"
    /\ \E c, d \in result :
         /\ c[1] = -(HALF_LEN - 1) /\ c[2] = -(HALF_LEN - 1)
         /\ d[1] = HALF_LEN - 1 /\ d[2] = HALF_LEN - 1

-----------------------------------------------------------------------------
(* C9 *)

-----------------------------------------------------------------------------
(* C10 *)

\* C10: Dashboard.round is 0 at the start; a step either leaves it as it is or
\* adds exactly 1, and adds 1 only as dead_or_alive running on a grid with an
\* Alive cell; so round always equals the number of executions so far that
\* saw a live cell.
C10_RoundCountsLiveTicks ==
    /\ db.round = 0
    /\ [][ \/ db'.round = db.round
           \/ /\ db'.round = db.round + 1
              /\ pc = "run"
              /\ LiveSet(cells) # {} ]_vars
    /\ [](db.round = live_ticks)

\* three steps have completed, the grid has become a still life that a further
\* step leaves unchanged, and the dashboard text shows the round
C10_Witness ==
    /\ pc = "run"
    /\ db.round = 3
    /\ live_ticks = 3
    /\ LiveSet(cells) # {}
    /\ dead_or_alive(db, cells).cells = cells
    /\ text[1] = FormatRound(3)

-----------------------------------------------------------------------------
(* dead_or_alive, statement by statement *)

\* the state the loop body gives cell i: the decision reads the grid only for
\* the cell itself, and the live coordinates from the list collected before
\* the loop (the live coordinates read from the grid being mutated, instead)
CellNext_live(cs, i, alive_coords) ==
    RuleNext(cs[i].state, alive_neighbor_count(cs[i].index_xy, AliveCoords(cs)))

CellNext(cs, i, alive_coords) ==
    RuleNext(cs[i].state, alive_neighbor_count(cs[i].index_xy, alive_coords))

\* lines 109-119: the live coordinates are collected; the execution returns
\* if there are none, and resets survival otherwise
BeginStep ==
    /\ pc = "run"
    /\ db.round < MaxRound
    /\ Len(AliveCoords(cells)) # 0
    /\ snapshot' = AliveCoords(cells)
    /\ db' = [db EXCEPT !.survival = 0]
    /\ visited' = {}
    /\ pc' = "step"
    /\ UNCHANGED <<init_alive_count, result, cells, sprites, text, start,
                   live_ticks, me, alives, live_count>>

\* lines 120-139: one pass of the loop body, on cell i
VisitCell(i) ==
    /\ pc = "step"
    /\ i \in (1 .. Len(cells)) \ visited
    /\ LET st == CellNext(cells, i, snapshot)
       IN  /\ cells' = [cells EXCEPT ![i].state = st]
           /\ db' = [db EXCEPT !.survival = IF st = "Alive" THEN @ + 1 ELSE @]
    /\ visited' = visited \cup {i}
    /\ UNCHANGED <<pc, init_alive_count, result, sprites, text, start,
                   live_ticks, me, alives, live_count, snapshot>>

\* the loop visiting the cells in spawn order
IterNext == VisitCell(Cardinality(visited) + 1)

\* the loop visiting the cells in any order
IterAny == \E i \in 1 .. NumCells : VisitCell(i)

\* line 140: the loop is over, round is advanced and the execution returns
EndStep ==
    /\ pc = "step"
    /\ visited = 1 .. Len(cells)
    /\ db' = [db EXCEPT !.round = @ + 1]
    /\ live_ticks' = live_ticks + 1
    /\ snapshot' = <<>>
    /\ visited' = {}
    /\ pc' = "run"
    /\ UNCHANGED <<init_alive_count, result, cells, sprites, text, start,
                   me, alives, live_count>>

\* the grid and the Dashboard after 0, 1, ..., k completed executions from
\* generation 0, as a sequence
RECURSIVE Generations(_)
Generations(k) ==
    IF k = 0
    THEN << [ db |-> [ round |-> 0, survival |-> 0 ], cells |-> start ] >>
    ELSE LET prev == Generations(k - 1)
             out  == dead_or_alive(prev[k].db, prev[k].cells)
         IN  Append(prev, out)

\* the grid and the Dashboard after k completed executions from generation 0
Generation(k) == Generations(k)[k + 1]

-----------------------------------------------------------------------------
(* The program with dead_or_alive taken statement by statement, next to the  *)
(* render systems.                                                           *)

NextFrame ==
    \/ SeedDraw
    \/ Setup
    \/ BeginStep
    \/ IterNext
    \/ EndStep
    \/ UpdateCellColor
    \/ UpdateDashboard

SpecFrame == Init /\ [][NextFrame]_vars

-----------------------------------------------------------------------------
(* C11 *)

-----------------------------------------------------------------------------
(* dead_or_alive statement by statement with the cells visited in any order, *)
(* from a glider as generation 0.                                            *)

InitOrder ==
    /\ pc = "run"
    /\ init_alive_count = INIT_ALIVE_COUNT
    /\ result \in { Translate(CanonicalGlider, o) :
                       o \in { q \in GridCoords : FarFromEdges(q) } }
    /\ cells = SetupCells(result)
    /\ start = cells
    /\ db = [ round |-> 0, survival |-> 0 ]
    /\ sprites = [ i \in 1 .. NumCells |-> "DEFAULT" ]
    /\ text = << <<>>, <<>> >>
    /\ live_ticks = 0
    /\ NoStep
    /\ NoCall

BeginStepOrder == db.round < MaxOrderRound /\ BeginStep

NextOrder ==
    \/ BeginStepOrder
    \/ IterAny
    \/ EndStep

SpecOrder == InitOrder /\ [][NextOrder]_vars

-----------------------------------------------------------------------------
(* C13 *)

\* C13: while the loop of dead_or_alive runs, its live-coordinate list is the
\* one of the complete grid as it was before the first cell was mutated, each
\* visited cell already has its state of the next generation and each other
\* cell still its old one; and when the execution returns, the grid and the
\* Dashboard are those the execution in spawn order produces from the pre-step
\* grid, whatever order the cells were visited in.
C13_OrderIndependent ==
    /\ pc = "step"
         => LET old == Generation(live_ticks).cells
                new == dead_or_alive(Generation(live_ticks).db, old).cells
            IN  /\ snapshot = AliveCoords(old)
                /\ cells = [ i \in 1 .. NumCells |->
                               IF i \in visited THEN new[i] ELSE old[i] ]
                /\ db.survival =
                     Cardinality({ i \in visited : cells[i].state = "Alive" })
    /\ pc = "run"
         => /\ cells = Generation(live_ticks).cells
            /\ db = Generation(live_ticks).db

\* the loop has visited the last cell before the first, has already changed
\* the grid, and a cell not yet visited is still to change
C13_Witness ==
    /\ pc = "step"
    /\ NumCells \in visited
    /\ 1 \notin visited
    /\ cells # Generation(live_ticks).cells
    /\ \E i \in (1 .. NumCells) \ visited :
         cells[i] # Generation(live_ticks + 1).cells[i]

-----------------------------------------------------------------------------
(* C12 *)

\* C12: in every state after setup, also while dead_or_alive is executing,
\* the grid holds (2 * HALF_LEN)^2 cells, exactly one for each coordinate of
\* [-HALF_LEN, HALF_LEN) x [-HALF_LEN, HALF_LEN), and every cell has the
\* coordinate setup gave it: a step changes states only.
C12_GridShapeFixed ==
    pc \in {"run", "step"}
    => /\ Len(cells) = (2 * HALF_LEN) * (2 * HALF_LEN)
       /\ Len(cells) = Cardinality(GridCoords)
       /\ { cells[i].index_xy : i \in 1 .. Len(cells) } = GridCoords
       /\ \A i, j \in 1 .. Len(cells) :
            cells[i].index_xy = cells[j].index_xy => i = j
       /\ Len(start) = Len(cells)
       /\ \A i \in 1 .. Len(cells) : cells[i].index_xy = start[i].index_xy

\* two steps have completed and changed states of the grid
C12_Witness ==
    /\ pc = "run"
    /\ live_ticks = 2
    /\ cells # start
    /\ cells # Generation(1).cells

-----------------------------------------------------------------------------
(* C14 *)

\* C14: an execution of dead_or_alive that starts with an Alive cell and
\* leaves none advances round by 1 and sets survival to 0; from the next tick
\* on the Dashboard keeps exactly these values.
C14_KillingStepCounts ==
    /\ [][ (pc = "run" /\ LiveSet(cells) # {} /\ LiveSet(cells') = {})
           => (db'.round = db.round + 1 /\ db'.survival = 0) ]_vars
    /\ [][ (pc = "run" /\ LiveSet(cells) = {})
           => (db' = db /\ db.round = live_ticks /\ db.survival = 0) ]_vars

\* the third step killed the last cells of a population that was alive before
\* it; round is 3 and ticks are still to come
C14_Witness ==
    /\ pc = "run"
    /\ LiveSet(cells) = {}
    /\ live_ticks = 3
    /\ db = [ round |-> 3, survival |-> 0 ]
    /\ LiveSet(Generation(2).cells) # {}
    /\ db.round < MaxRound

-----------------------------------------------------------------------------
(* Start-up with a fair random source: every coordinate seed() can draw is   *)
(* drawn at some time while the loop keeps running, and a loop whose         *)
(* condition has become false is left.                                       *)

SeedDrawOf(c) == SeedDraw /\ result' = result \cup {c}

SeedFairness ==
    /\ \A c \in SeedDomain : WF_vars(SeedDrawOf(c))
    /\ WF_vars(Setup)

SpecSeedFair == InitConfig /\ [][NextConfig]_vars /\ SeedFairness

-----------------------------------------------------------------------------
(* C15 *)

\* C15: with a target of at most the number of coordinates seed() can draw
\* and a fair random source, the loop of seed() is eventually left; and an
\* iteration of the loop never shrinks the result and adds at most one
\* coordinate to it.
C15_SeedTerminates ==
    /\ [](init_alive_count <= Cardinality(SeedDomain) => <>(pc = "run"))
    /\ [][ pc = "seed"
           => /\ result \subseteq result'
              /\ Cardinality(result') <= Cardinality(result) + 1 ]_vars

\* seed() has returned a set of every coordinate it can draw
C15_Witness ==
    /\ pc = "run"
    /\ init_alive_count = Cardinality(SeedDomain)
    /\ result = SeedDomain

-----------------------------------------------------------------------------
(* C16 *)

\* C16: from setup until the first execution of dead_or_alive has completed,
\* the Dashboard holds round = 0 and survival = 0 while the grid holds Alive
\* cells, so survival differs from the number of Alive cells; after the first
\* completed execution survival equals that number.
C16_DashboardBeforeFirstStep ==
    /\ (pc = "run" /\ live_ticks = 0)
         => /\ db = [ round |-> 0, survival |-> 0 ]
            /\ LiveSet(cells) # {}
            /\ db.survival # Cardinality(LiveSet(cells))
    /\ (pc = "run" /\ live_ticks = 1)
         => db.survival = Cardinality(LiveSet(cells))

\* before the first step both render systems have run: the text shows round 0
\* and survival 0 while some sprite shows an Alive cell
C16_Witness ==
    /\ pc = "run"
    /\ live_ticks = 0
    /\ text = << FormatRound(0), FormatSurvival(0) >>
    /\ \E i \in 1 .. NumCells : sprites[i] = "WHITE"

-----------------------------------------------------------------------------
(* C17 *)

\* C17: every coordinate in seed()'s result lies in the open range
\* (-HALF_LEN, HALF_LEN) on both axes and so names a cell of the grid, never
\* one with x = -HALF_LEN or y = -HALF_LEN; and before the first step the grid
\* made by setup holds exactly INIT_ALIVE_COUNT = HALF_LEN * HALF_LEN Alive
\* cells, those of the result.
C17_SeedFillsGrid ==
    /\ \A c \in result :
         /\ c \in GridCoords
         /\ c[1] # -HALF_LEN /\ c[2] # -HALF_LEN
         /\ -HALF_LEN < c[1] /\ c[1] < HALF_LEN
         /\ -HALF_LEN < c[2] /\ c[2] < HALF_LEN
    /\ (pc = "run" /\ live_ticks = 0)
         => /\ LiveSet(cells) = result
            /\ Cardinality(LiveSet(cells)) = INIT_ALIVE_COUNT
            /\ INIT_ALIVE_COUNT = HALF_LEN * HALF_LEN

\* setup has filled the grid from a seed drawn from both extremes of i32:
\* i32::MIN % HALF_LEN and i32::MAX % HALF_LEN
C17_Witness ==
    /\ pc = "run"
    /\ live_ticks = 0
    /\ <<Rem(I32Min, HALF_LEN), Rem(I32Max, HALF_LEN)>> \in LiveSet(cells)
    /\ \E c \in LiveSet(cells) : c[1] < 0 /\ c[2] < 0

-----------------------------------------------------------------------------
(* C18 *)

\* the count with the bounds of the grid, [-HALF_LEN, HALF_LEN) on both axes
ExactCount(c, S) == Cardinality(Adjacent8(c) \cap GridCoords \cap S)

\* the count with no bounds test at all
PlainCount(c, S) == Cardinality(Adjacent8(c) \cap S)

\* C18: while the loop of dead_or_alive runs, its live list names grid
\* coordinates only, and for every cell alive_neighbor_count on that list
\* equals the count with the exact bounds of the grid and equals the plain
\* number of adjacent coordinates in the list.
C18_InclusiveBoundHarmless ==
    pc = "step"
    => /\ SeqToSet(snapshot) \subseteq GridCoords
       /\ \A i \in 1 .. Len(cells) :
            LET c == cells[i].index_xy
            IN  /\ alive_neighbor_count(c, snapshot) = ExactCount(c, SeqToSet(snapshot))
                /\ alive_neighbor_count(c, snapshot) = PlainCount(c, SeqToSet(snapshot))

\* the loop runs on a list naming live cells on the upper and on the lower
\* edge of the grid, next to coordinates the bounds test lets pass and next to
\* coordinates it rejects
C18_Witness ==
    /\ pc = "step"
    /\ \E a, b \in SeqToSet(snapshot) :
         /\ a[1] = HALF_LEN - 1
         /\ b[1] = -HALF_LEN
    /\ visited # {}

====
